---- MODULE Spec2Model ----
(***************************************************************************)
(* JOURNEL: the resumable GitHub batch import (journel/import_github.py),  *)
(* the project store it writes to (journel/storage.py) and the commands    *)
(* that mutate the same store (journel/cli.py: new, update, done).         *)
(*                                                                         *)
(* Files are modelled by their content: a directory is the set of project  *)
(* records it holds (one file per identifier), the checkpoint file         *)
(* import_state.yaml and the index projects.json are a set holding zero or *)
(* one document.  Dates are kept as "days before today".                   *)
(***************************************************************************)
EXTENDS Integers, Sequences, FiniteSets, TLC

\* ---------------------------------------------------------------- bounds
MaxRepos == 2
MaxRuns == 2
MaxOps == 2
MaxActive == 1
StoreRuns == 1
MaxFilterLen == 3

\* ------------------------------------------------------ program constants
BATCH_SIZE == 10
DefaultMaxActive == 5
RecentMonths == 3
ActiveDays == 14
OngoingDays == 90
DefaultMaxOngoing == 2

\* ---------------------------------------------------------------- slugify
UpperChars == {"A", "B", "Q"}
LowerChars == {"a", "b", "c", "d", "e", "f", "g", "h", "i", "j", "k", "l", "q"}
WordChars == UpperChars \cup LowerChars \cup {"_", "0", "1"}
SpaceChars == {" "}

lower_char(c) ==
    CASE c = "A" -> "a"
      [] c = "B" -> "b"
      [] c = "Q" -> "q"
      [] OTHER -> c

\* text.lower()
lower_text(t) == [k \in 1..Len(t) |-> lower_char(t[k])]

\* re.sub(r'[^\w\s-]', '', text)
RECURSIVE strip_nonword(_)
strip_nonword(t) ==
    IF t = <<>> THEN <<>>
    ELSE IF Head(t) \in WordChars \cup SpaceChars \cup {"-"}
         THEN <<Head(t)>> \o strip_nonword(Tail(t))
         ELSE strip_nonword(Tail(t))

\* re.sub(r'[-\s]+', '-', text)
RECURSIVE collapse_dashes(_)
collapse_dashes(t) ==
    IF t = <<>> THEN <<>>
    ELSE IF Head(t) \in SpaceChars \cup {"-"}
         THEN IF Tail(t) # <<>> /\ Head(Tail(t)) \in SpaceChars \cup {"-"}
              THEN collapse_dashes(Tail(t))
              ELSE <<"-">> \o collapse_dashes(Tail(t))
         ELSE <<Head(t)>> \o collapse_dashes(Tail(t))

\* text.strip('-')
RECURSIVE strip_dashes(_)
strip_dashes(t) ==
    IF t = <<>> THEN <<>>
    ELSE IF Head(t) = "-" THEN strip_dashes(Tail(t))
    ELSE IF t[Len(t)] = "-" THEN strip_dashes(SubSeq(t, 1, Len(t) - 1))
    ELSE t

slugify(text) == strip_dashes(collapse_dashes(strip_nonword(lower_text(text))))

\* ------------------------------------------------------------- candidates
\* GitHubRepo: the fields the import reads.  pushed = days since last push.
Repo(n, ar, fk, st, sz, pd) ==
    [name |-> n, archived |-> ar, fork |-> fk, stargazers_count |-> st,
     size |-> sz, pushed |-> pd]

\* What the account holds, most recently pushed first.  "A." and "a" are
\* different repository names with the same slug.
Pool ==
    << Repo(<<"a">>, FALSE, FALSE, 1, 7, 0),
       Repo(<<"b", "-", " ", "c">>, FALSE, FALSE, 0, 7, 200),
       Repo(<<"A", ".">>, FALSE, FALSE, 0, 7, 30),
       Repo(<<"d">>, FALSE, TRUE, 0, 7, 200),
       Repo(<<"e">>, TRUE, FALSE, 2, 7, 200) >>

Sources == {SubSeq(Pool, 1, n) : n \in 0..MaxRepos}

\* names a user may type for "jnl new"
UserNames == {<<"a">>, <<"B", " ", "c">>}

\* a fork rule that forgets the stars
Discarded_any_fork(repo, include_archived, include_forks, recent_only, months) ==
    \/ repo.archived /\ ~include_archived
    \/ repo.fork /\ ~include_forks
    \/ repo.size = 0
    \/ recent_only /\ repo.pushed > 30 * months

\* apply_filters: an item is dropped when any rule matches
Discarded(repo, include_archived, include_forks, recent_only, months) ==
    \/ repo.archived /\ ~include_archived
    \/ repo.fork /\ ~include_forks /\ repo.stargazers_count = 0
    \/ repo.size = 0
    \/ recent_only /\ repo.pushed > 30 * months

\* a filter that collects the kept items newest last
RECURSIVE KeptOf_reversed(_, _, _, _, _)
KeptOf_reversed(rs, ia, ifk, ro, months) ==
    IF rs = <<>> THEN <<>>
    ELSE IF Discarded(Head(rs), ia, ifk, ro, months)
         THEN KeptOf_reversed(Tail(rs), ia, ifk, ro, months)
         ELSE KeptOf_reversed(Tail(rs), ia, ifk, ro, months) \o <<Head(rs)>>

RECURSIVE KeptOf(_, _, _, _, _)
KeptOf(rs, ia, ifk, ro, months) ==
    IF rs = <<>> THEN <<>>
    ELSE IF Discarded(Head(rs), ia, ifk, ro, months)
         THEN KeptOf(Tail(rs), ia, ifk, ro, months)
         ELSE <<Head(rs)>> \o KeptOf(Tail(rs), ia, ifk, ro, months)

RECURSIVE FilteredOut(_, _, _, _, _)
FilteredOut(rs, ia, ifk, ro, months) ==
    IF rs = <<>> THEN 0
    ELSE (IF Discarded(Head(rs), ia, ifk, ro, months) THEN 1 ELSE 0)
         + FilteredOut(Tail(rs), ia, ifk, ro, months)

apply_filters(rs, ia, ifk, ro, months) ==
    [kept |-> KeptOf(rs, ia, ifk, ro, months),
     filtered_out |-> FilteredOut(rs, ia, ifk, ro, months)]

\* ------------------------------------------------------------ import state
Counters(a, o, m, ar, s) ==
    [imported_as_active |-> a, imported_as_ongoing |-> o,
     imported_as_maintenance |-> m, imported_as_archived |-> ar, skipped |-> s]

create_new_import_state ==
    [stats |-> [total_repos |-> 0, filtered_out |-> 0, remaining |-> 0],
     processed |-> Counters(0, 0, 0, 0, 0),
     repos_processed |-> <<>>,
     current_position |-> 0]

\* ------------------------------------------------------------------ input
\* Lines a machine caller may send; EOF is the end of input.
EOF == "<EOF>"
AiLines == {"Active", "a", "ongoing", "o", "maintenance", "m", "skip", "s",
            "archive", "", "later", "quit", "q", "Q", EOF}
\* Keys a person may press.
Keys == {"A", "a", "o", "s", "m", "enter", "", "q", "Q"}

\* str.strip().lower() on the lines above
strip_lower(s) ==
    CASE s = "Active" -> "active"
      [] s = "A" -> "a"
      [] s = "Q" -> "q"
      [] OTHER -> s

\* ---------------------------------------------------------------- storage
\* A new record has priority "medium" and no tags (models.py).
Project(id, name, status, ptype, completion, la) ==
    [id |-> id, name |-> name, status |-> status, project_type |-> ptype,
     completion |-> completion, last_active |-> la, priority |-> "medium",
     tags |-> <<>>]

HasFile(dir, id) == \E p \in dir : p.id = id
FileOf(dir, id) == CHOOSE p \in dir : p.id = id
\* path.write_text: creates the file or replaces its content
WriteFile(dir, p) == {q \in dir : q.id # p.id} \cup {p}
Unlink(dir, id) == {q \in dir : q.id # id}

VARIABLES
    projects_dir,       \* projects/*.md
    completed_dir,      \* completed/*.md
    archived_dir,       \* archived/*.md
    index_file,         \* .meta/projects.json
    import_state_file,  \* .meta/import_state.yaml
    max_active_projects,\* config value
    source,             \* the repositories of the account
    pc,                 \* position of import_github_repos
    args,               \* its flags
    state,              \* its ImportState (in memory)
    repos,              \* the filtered list
    start_pos, batch_num, i,
    out,                \* what the run has emitted
    exit,               \* how the last run ended
    last_input,         \* the token the last prompt read
    prompted,           \* global indices decided by this run
    fresh,              \* this run's state came from create_new_import_state
    session,            \* history of the import session (see Session)
    killed,             \* the in-memory state of a run that was killed
    invoked,            \* the invocation until its fetch returns (see Invocation)
    calls,              \* the apply_filters calls of a filter session
    cmd,                \* the last cli command and what it reported (see Report)
    runs, ops

store == <<projects_dir, completed_dir, archived_dir, index_file>>
run == <<pc, args, state, repos, start_pos, batch_num, i, out, exit, last_input,
         prompted, fresh>>
vars == <<projects_dir, completed_dir, archived_dir, index_file, import_state_file,
          max_active_projects, source, pc, args, state, repos, start_pos,
          batch_num, i, out, exit, last_input, prompted, fresh, session, killed,
          invoked, calls, cmd, runs, ops>>

\* Storage.load_project: the active directory, then the completed one
load_project(id) ==
    IF HasFile(projects_dir, id) THEN {FileOf(projects_dir, id)}
    ELSE IF HasFile(completed_dir, id) THEN {FileOf(completed_dir, id)}
    ELSE {}

\* Storage.list_projects() with no status filter
list_projects_of(pd, cd) == pd \cup cd
list_projects == list_projects_of(projects_dir, completed_dir)

\* Storage.update_project_index, from the directories as they are after the write
IndexOf(pd, cd) ==
    {{[id |-> p.id, name |-> p.name, status |-> p.status,
       completion |-> p.completion, last_active |-> p.last_active,
       tags |-> p.tags]
        : p \in list_projects_of(pd, cd)}}

\* load_import_state / clear_import_state
load_import_state == import_state_file

\* a save that writes the position of the item before
save_import_state_stale(st) ==
    {[st EXCEPT !.current_position = IF @ > 0 THEN @ - 1 ELSE 0]}

\* save_import_state: the whole state as it is in memory
save_import_state(st) == {st}

clear_import_state == {}

NoArgs == [ai_mode |-> FALSE, json_output |-> FALSE, preview |-> FALSE]

\* Session: the candidate list the session started with, the global indices
\* decided since the state was created, and whether every run of the session
\* saw that list and none was killed.
NoSession == [kept |-> <<>>, decided |-> <<>>, clean |-> TRUE]

\* Invocation: what the state choice (lines 555-587) was given, kept while the
\* run has not passed its fetch: the mode, whether resume was asked for (and
\* read: force_new is tested first) with no checkpoint to resume, and the
\* checkpoint file the invocation found.
Invocation(ai_mode, resume, force_new, checkpoint) ==
    [ai_mode |-> ai_mode,
     resume_unmet |-> resume /\ ~force_new /\ checkpoint = {},
     checkpoint |-> checkpoint]

\* A new data directory: no project, no index, no checkpoint, no run.
InitStore ==
    /\ projects_dir = {}
    /\ completed_dir = {}
    /\ archived_dir = {}
    /\ index_file = {}
    /\ import_state_file = {}
    /\ pc = "idle"
    /\ args = NoArgs
    /\ state = {}
    /\ repos = <<>>
    /\ start_pos = 0
    /\ batch_num = 0
    /\ i = 0
    /\ out = <<>>
    /\ exit = "NONE"
    /\ last_input = ""
    /\ prompted = <<>>
    /\ fresh = FALSE
    /\ session = NoSession
    /\ killed = {}
    /\ invoked = {}
    /\ calls = <<>>
    /\ cmd = {}
    /\ runs = 0
    /\ ops = 0

Init ==
    /\ InitStore
    /\ max_active_projects = MaxActive
    /\ source \in Sources

\* ------------------------------------------------------ import_github_repos
\* One emitted record: n1, n2 carry the numbers of the record, action its text.
Out(type, index, n1, n2, action) ==
    [type |-> type, index |-> index, n1 |-> n1, n2 |-> n2, action |-> action]

TheState == CHOOSE st \in state : TRUE

EndRun(how) ==
    /\ pc' = "idle"
    /\ exit' = how
    /\ args' = NoArgs
    /\ prompted' = <<>>
    /\ fresh' = FALSE
    /\ state' = {}
    /\ repos' = <<>>
    /\ start_pos' = 0
    /\ batch_num' = 0
    /\ i' = 0

\* Lines 541-587: flags, client, and the choice of the ImportState.
\* gh is what "gh auth status" does: "ok", "unauth" (non-zero exit) or
\* "missing" (cannot be run); confirm answers "Resume where you left off?".
StartRun(ai, json, resume, preview, force_new, gh, confirm) ==
    LET ai_mode == ai \/ json
        a == [ai_mode |-> ai_mode, json_output |-> json, preview |-> preview]
        existing == load_import_state
        Begin(st, file, isfresh) ==
            /\ import_state_file' = file
            /\ state' = {st}
            /\ fresh' = isfresh
            /\ args' = a
            /\ pc' = "fetch"
            /\ exit' = "NONE"
            /\ UNCHANGED <<repos, start_pos, batch_num, i, prompted>>
        Stop(how) ==
            /\ EndRun(how)
            /\ UNCHANGED import_state_file
    IN
    /\ pc = "idle"
    /\ runs < MaxRuns
    /\ runs' = runs + 1
    /\ last_input' = ""
    /\ killed' = {}
    /\ invoked' = IF gh = "missing" THEN {}
                  ELSE {Invocation(ai_mode, resume, force_new, import_state_file)}
    /\ out' = IF gh = "missing" THEN <<Out("error", 0, 0, 0, "gh not found")>>
              ELSE IF ~force_new /\ resume /\ existing = {} /\ ~ai_mode
              THEN <<Out("error", 0, 0, 0, "No previous import session found")>>
              ELSE <<>>
    /\ IF gh = "missing" THEN Stop("CLIENT_ERROR")
       ELSE IF force_new THEN Begin(create_new_import_state, clear_import_state, TRUE)
       ELSE IF resume THEN
            IF existing = {} THEN Stop("NOTHING_TO_RESUME")
            ELSE Begin(CHOOSE st \in existing : TRUE, import_state_file, FALSE)
       ELSE IF existing # {} /\ ai_mode
            THEN Begin(CHOOSE st \in existing : TRUE, import_state_file, FALSE)
       ELSE IF existing # {} /\ ~ai_mode THEN
            IF confirm THEN Begin(CHOOSE st \in existing : TRUE, import_state_file, FALSE)
            ELSE Begin(create_new_import_state, clear_import_state, TRUE)
       ELSE Begin(create_new_import_state, import_state_file, TRUE)
    /\ UNCHANGED <<store, max_active_projects, source, session, calls, cmd, ops>>

\* a resume that forgets the position
StartPos_zero(st) == 0

\* state.get("current_position", 0)
StartPos(st) == st.current_position

\* repos[start_pos:]
Remaining(rs, sp) == IF sp >= Len(rs) THEN <<>> ELSE SubSeq(rs, sp + 1, Len(rs))

\* a batch count that rounds down
TotalBatches_floor(n) == n \div BATCH_SIZE

\* (len(remaining_repos) + BATCH_SIZE - 1) // BATCH_SIZE
TotalBatches(n) == (n + BATCH_SIZE - 1) \div BATCH_SIZE

total_batches == TotalBatches(Len(Remaining(repos, start_pos)))

\* Lines 589-645: fetch, filter, stats, preview, start position.
FetchRepos(fetched, ia, ifk, ro) ==
    LET f == apply_filters(source, ia, ifk, ro, RecentMonths)
        st == [TheState EXCEPT !.stats = [total_repos |-> Len(source),
                                          filtered_out |-> f.filtered_out,
                                          remaining |-> Len(f.kept)]]
        sp == StartPos(st)
    IN
    /\ pc = "fetch"
    /\ IF ~fetched THEN EndRun("FETCH_FAILED") /\ UNCHANGED session
       ELSE IF source = <<>> THEN EndRun("NO_REPOS") /\ UNCHANGED session
       ELSE IF f.kept = <<>> THEN EndRun("NO_MATCH") /\ UNCHANGED session
       ELSE IF args.preview THEN EndRun("PREVIEW") /\ UNCHANGED session
       ELSE /\ state' = {st}
            /\ repos' = f.kept
            /\ start_pos' = sp
            /\ session' = IF fresh
                           THEN [kept |-> f.kept, decided |-> <<>>, clean |-> TRUE]
                           ELSE IF session.clean /\ f.kept = session.kept
                           THEN session
                           ELSE [kept |-> <<>>, decided |-> <<>>, clean |-> FALSE]
            /\ IF TotalBatches(Len(Remaining(f.kept, sp))) = 0
               THEN pc' = "finish" /\ batch_num' = 0
               ELSE pc' = "present" /\ batch_num' = 1
            /\ i' = 0
            /\ UNCHANGED exit
    /\ pc' # "idle" => UNCHANGED <<args, prompted, fresh>>
    /\ invoked' = {}
    /\ out' = IF ~fetched THEN out \o <<Out("error", 0, 0, 0, "Failed to fetch repos")>>
              ELSE out
    /\ UNCHANGED <<store, import_state_file, max_active_projects, source,
                   last_input, killed, calls, cmd, runs, ops>>
\* ------------------------------------------------ create_project_from_repo
\* Storage.save_project: completed projects go to completed/, all others to
\* projects/.  The result is the pair of directories after the write.
save_project(p, pd, cd) ==
    IF p.status = "completed"
    THEN [pd |-> pd, cd |-> WriteFile(cd, p)]
    ELSE [pd |-> WriteFile(pd, p), cd |-> cd]

\* Storage._save_project_to_path(project, archived_dir / "<id>.md")
save_project_to_path(p, dir) == WriteFile(dir, p)

\* a type that knows no maintenance projects
ProjectTypeOf_no_maintenance(status) ==
    IF status = "ongoing" THEN "ongoing" ELSE "regular"

\* Lines 436-444: project type and status from the decision
ProjectTypeOf(status) ==
    IF status = "ongoing" THEN "ongoing"
    ELSE IF status = "maintenance" THEN "maintenance"
    ELSE "regular"

ProjectStatusOf(status) ==
    IF status \in {"active", "ongoing", "maintenance"} THEN "in-progress" ELSE "archived"

\* Lines 426-482.  The result is the store after the call; skipped tells
\* that the "already exists, skipping" note was printed.
create_project_from_repo(repo, status) ==
    LET project_id == slugify(repo.name)
        project == Project(project_id, repo.name, ProjectStatusOf(status),
                           ProjectTypeOf(status), 0, repo.pushed)
    IN
    IF load_project(project_id) # {}
    THEN [pd |-> projects_dir, cd |-> completed_dir, ad |-> archived_dir,
          ix |-> index_file, skipped |-> TRUE]
    ELSE IF status = "archived"
    THEN [pd |-> projects_dir, cd |-> completed_dir,
          ad |-> save_project_to_path(project, archived_dir),
          ix |-> IndexOf(projects_dir, completed_dir), skipped |-> FALSE]
    ELSE LET w == save_project(project, projects_dir, completed_dir)
         IN [pd |-> w.pd, cd |-> w.cd, ad |-> archived_dir,
             ix |-> IndexOf(w.pd, w.cd), skipped |-> FALSE]

\* ------------------------------------------------------- per-item handlers
\* [p for p in projects if p.status == "in-progress" and p.project_type == "regular"]
active_regular ==
    {p \in list_projects : p.status = "in-progress" /\ p.project_type = "regular"}

\* a gate that opens only above the ceiling
gate_issue_above(n, max_active) == n > max_active

\* len(active_regular) >= max_active
gate_issue(n, max_active) == n >= max_active

\* What a handler decides: quit, or the status handed to the materializer
\* ("" for none), the counter it increments, the action it logs, and whether
\* the active-limit gate was hit.
Decision(quit, status, counter, action, gate) ==
    [quit |-> quit, status |-> status, counter |-> counter, action |-> action,
     gate |-> gate]

\* process_repo_ai_mode, lines 193-324
ai_decision(line, n, max_active) ==
    LET response == IF line = EOF THEN "quit" ELSE strip_lower(line)
        action == IF response = "" THEN "archive" ELSE response
    IN
    IF response \in {"quit", "q"} THEN Decision(TRUE, "", "", "", FALSE)
    ELSE IF response \in {"active", "a"} THEN
        IF gate_issue(n, max_active)
        THEN Decision(FALSE, "archived", "imported_as_archived", action, TRUE)
        ELSE Decision(FALSE, "active", "imported_as_active", action, FALSE)
    ELSE IF response \in {"ongoing", "o"}
        THEN Decision(FALSE, "ongoing", "imported_as_ongoing", action, FALSE)
    ELSE IF response \in {"maintenance", "m"}
        THEN Decision(FALSE, "maintenance", "imported_as_maintenance", action, FALSE)
    ELSE IF response \in {"skip", "s"}
        THEN Decision(FALSE, "", "skipped", action, FALSE)
    ELSE Decision(FALSE, "archived", "imported_as_archived", action, FALSE)

\* a handler that reads the override answer the wrong way round
interactive_decision_inverted(key, confirm, n, max_active) ==
    LET choice == strip_lower(key)
        action == IF choice = "" THEN "archive" ELSE choice
    IN
    IF choice = "q" THEN Decision(TRUE, "", "", "", FALSE)
    ELSE IF choice = "a" THEN
        IF gate_issue(n, max_active)
        THEN IF confirm
             THEN Decision(FALSE, "archived", "imported_as_archived", action, TRUE)
             ELSE Decision(FALSE, "active", "imported_as_active", action, TRUE)
        ELSE Decision(FALSE, "active", "imported_as_active", action, FALSE)
    ELSE IF choice = "o"
        THEN Decision(FALSE, "ongoing", "imported_as_ongoing", action, FALSE)
    ELSE IF choice = "s"
        THEN Decision(FALSE, "", "skipped", action, FALSE)
    ELSE Decision(FALSE, "archived", "imported_as_archived", action, FALSE)

\* process_repo_interactive, lines 369-413; confirm answers "Really add as active?"
interactive_decision(key, confirm, n, max_active) ==
    LET choice == strip_lower(key)
        action == IF choice = "" THEN "archive" ELSE choice
    IN
    IF choice = "q" THEN Decision(TRUE, "", "", "", FALSE)
    ELSE IF choice = "a" THEN
        IF gate_issue(n, max_active)
        THEN IF ~confirm
             THEN Decision(FALSE, "archived", "imported_as_archived", action, TRUE)
             ELSE Decision(FALSE, "active", "imported_as_active", action, TRUE)
        ELSE Decision(FALSE, "active", "imported_as_active", action, FALSE)
    ELSE IF choice = "o"
        THEN Decision(FALSE, "ongoing", "imported_as_ongoing", action, FALSE)
    ELSE IF choice = "s"
        THEN Decision(FALSE, "", "skipped", action, FALSE)
    ELSE Decision(FALSE, "archived", "imported_as_archived", action, FALSE)

\* a bookkeeping that keeps no log of the decision
track_unlogged(st, d, name, index) ==
    [st EXCEPT !.processed[d.counter] = @ + 1,
               !.current_position = index]

\* a bookkeeping that records the 0-based index
track_zero_based(st, d, name, index) ==
    [st EXCEPT !.processed[d.counter] = @ + 1,
               !.repos_processed = Append(@, [name |-> name, action |-> d.action]),
               !.current_position = index - 1]

\* "Track in state", lines 326-332 and 415-421
track(st, d, name, index) ==
    [st EXCEPT !.processed[d.counter] = @ + 1,
               !.repos_processed = Append(@, [name |-> name, action |-> d.action]),
               !.current_position = index]

\* a quit that counts the item it aborted
quit_state_counted(st, index) == [st EXCEPT !.current_position = index]

\* The state that a quit writes: the handler returned before touching it.
quit_state(st, index) == st

\* an index that starts again in every batch
GlobalIndex_in_batch == start_pos + i + 1

\* global_index = start_pos + start_idx + i + 1
GlobalIndex == start_pos + (batch_num - 1) * BATCH_SIZE + i + 1

\* min(start_idx + BATCH_SIZE, len(remaining_repos))
EndIdx ==
    LET start_idx == (batch_num - 1) * BATCH_SIZE
        n == Len(Remaining(repos, start_pos))
    IN IF start_idx + BATCH_SIZE < n THEN start_idx + BATCH_SIZE ELSE n

\* Lines 656-678: present one repository and act on the token the handler
\* read; typed is what was entered at the prompt to produce that token.
HandleRepo(typed, token, confirm) ==
    LET start_idx == (batch_num - 1) * BATCH_SIZE
        repo == Remaining(repos, start_pos)[start_idx + i + 1]
        index == GlobalIndex
        n == Cardinality(active_regular)
        d == IF args.ai_mode THEN ai_decision(token, n, max_active_projects)
             ELSE interactive_decision(token, confirm, n, max_active_projects)
        c == IF d.status = ""
             THEN [pd |-> projects_dir, cd |-> completed_dir, ad |-> archived_dir,
                   ix |-> index_file, skipped |-> FALSE]
             ELSE create_project_from_repo(repo, d.status)
        warning == IF ~d.gate THEN <<>>
                   ELSE IF args.ai_mode
                   THEN <<Out("gate_warning", index, n, max_active_projects, "")>>
                   ELSE <<Out("gate_prompt", index, n, 0, IF confirm THEN "y" ELSE "n")>>
        note == IF c.skipped THEN <<Out("skip_note", index, 0, 0, "")>> ELSE <<>>
        result == <<Out("result", index, 0, 0, d.counter)>>
        qst == quit_state(TheState, index)
    IN
    /\ pc = "present"
    /\ token \in (IF args.ai_mode THEN AiLines ELSE Keys)
    /\ last_input' = typed
    /\ IF d.quit
       THEN /\ import_state_file' = save_import_state(qst)
            /\ out' = out \o
                 (IF ~args.ai_mode
                  THEN <<Out("quit_summary", index, qst.current_position,
                             Len(repos) - index, "")>>
                  ELSE IF args.json_output
                  THEN <<Out("status", index, index, Len(repos) - index, "quit")>>
                  ELSE <<>>)
            /\ EndRun("PAUSED")
            /\ UNCHANGED <<store, session>>
       ELSE /\ projects_dir' = c.pd
            /\ completed_dir' = c.cd
            /\ archived_dir' = c.ad
            /\ index_file' = c.ix
            /\ state' = {track(TheState, d, repo.name, index)}
            /\ out' = out \o warning \o note \o result
            /\ session' = IF session.clean
                           THEN [session EXCEPT !.decided = Append(@, index)]
                           ELSE session
            /\ prompted' = Append(prompted, index)
            /\ pc' = "save"
            /\ UNCHANGED <<import_state_file, repos, start_pos, batch_num, i, exit,
                           args, fresh>>
    /\ UNCHANGED <<max_active_projects, source, killed, invoked, calls, cmd, runs, ops>>

\* The token is the whole of what was entered: a line on standard input in
\* machine mode (input(), lines 193-218), one key read in raw mode in human
\* mode (lines 124-133, 369).
ProcessRepo(token, confirm) == HandleRepo(token, token, confirm)

\* What the human prompt is given: the platform (termios raw mode or the
\* input() fall-back) and what was entered, key by key or line by line.
TypedInput(platform, lines) == [platform |-> platform, lines |-> lines]

\* Lines a person may enter at the fall-back prompt.
FallbackLines == {"", "q", "Q", "quit", "a", "m"}

\* line.strip().lower()[:1] on the lines above
first_char(line) ==
    CASE line = "quit" -> "q"
      [] OTHER -> strip_lower(line)

\* get_single_keypress, lines 117-138.  Raw mode returns the one character
\* read.  The fall-back is
\*     return input().strip().lower()[:1] if input().strip() else ""
\* whose condition reads the first line and whose value reads a second one.
get_single_keypress(typed) ==
    IF typed.platform = "termios" THEN typed.lines[1]
    ELSE IF typed.lines[1] = "" THEN ""
    ELSE first_char(typed.lines[2])

\* What may be entered at the human prompt: one key in raw mode; in the
\* fall-back one empty line, or a line and the line read after it.
HumanInputs ==
    {TypedInput("termios", <<k>>) : k \in Keys}
    \cup {TypedInput("fallback", <<"">>)}
    \cup {TypedInput("fallback", <<l1, l2>>) : l1 \in FallbackLines \ {""},
                                               l2 \in FallbackLines}

\* process_repo_interactive, lines 368-369: the prompt of the human channel
Keypress(typed, confirm) ==
    /\ ~args.ai_mode
    /\ typed \in HumanInputs
    /\ HandleRepo(typed, get_single_keypress(typed), confirm)

\* process_repo_ai_mode, lines 193-218: the prompt of the machine channel
ReadLine(line) ==
    /\ args.ai_mode
    /\ HandleRepo(TypedInput("stdin", <<line>>), line, FALSE)

\* a loop that never writes the checkpoint after an item
SaveAfterRepo_never ==
    /\ pc = "save"
    /\ IF (batch_num - 1) * BATCH_SIZE + i + 1 < EndIdx
       THEN pc' = "present" /\ i' = i + 1
       ELSE pc' = "batch_end" /\ i' = i
    /\ UNCHANGED <<store, import_state_file, max_active_projects, source, args, state,
                   repos, start_pos, batch_num, out, exit, last_input, prompted, fresh,
                   session, killed, invoked, calls, cmd, runs, ops>>

\* a loop that writes the checkpoint only when a batch ends
SaveAfterRepo_batch ==
    /\ pc = "save"
    /\ IF (batch_num - 1) * BATCH_SIZE + i + 1 < EndIdx
       THEN pc' = "present" /\ i' = i + 1 /\ UNCHANGED import_state_file
       ELSE pc' = "batch_end" /\ i' = i
            /\ import_state_file' = save_import_state(TheState)
    /\ UNCHANGED <<store, max_active_projects, source, args, state, repos, start_pos,
                   batch_num, out, exit, last_input, prompted, fresh, session, killed,
                   invoked, calls, cmd, runs, ops>>

\* Line 681, and the step to the next item of the batch.
SaveAfterRepo ==
    /\ pc = "save"
    /\ import_state_file' = save_import_state(TheState)
    /\ IF (batch_num - 1) * BATCH_SIZE + i + 1 < EndIdx
       THEN pc' = "present" /\ i' = i + 1
       ELSE pc' = "batch_end" /\ i' = i
    /\ UNCHANGED <<store, max_active_projects, source, args, state, repos, start_pos,
                   batch_num, out, exit, last_input, prompted, fresh, session, killed,
                   invoked, calls, cmd, runs, ops>>

BatchAnswers == {"", "y", "n", "no", "q", "quit"}

\* a boundary that asks in machine mode too
batch_asks_any_mode(ai_mode, bn, tb) == bn < tb

\* "if not ai_mode: ... if batch_num < total_batches:" (lines 684, 687)
batch_asks(ai_mode, bn, tb) == ~ai_mode /\ bn < tb

\* Lines 683-709: the batch summary and, between batches, the question.
BatchEnd(response) ==
    LET st == TheState
        done == start_pos + EndIdx
        summary == Out("batch_summary", batch_num, st.processed.imported_as_active,
                       st.processed.imported_as_archived, "")
        asked == batch_asks(args.ai_mode, batch_num, total_batches)
        pause == asked /\ response \in {"q", "quit", "n", "no"}
    IN
    /\ pc = "batch_end"
    /\ response \in BatchAnswers
    /\ ~asked => response = ""
    /\ IF pause
       THEN /\ import_state_file' = save_import_state(st)
            /\ out' = out \o <<summary,
                                Out("quit_summary", done, st.current_position,
                                    Len(repos) - done, "")>>
            /\ EndRun("PAUSED")
       ELSE /\ out' = out \o
                 (IF ~args.ai_mode THEN <<summary>>
                  ELSE IF args.json_output
                  THEN <<Out("batch_complete", batch_num, done, Len(repos) - done, "")>>
                  ELSE <<>>)
            /\ IF batch_num < total_batches
               THEN pc' = "present" /\ batch_num' = batch_num + 1 /\ i' = 0
               ELSE pc' = "finish" /\ UNCHANGED <<batch_num, i>>
            /\ UNCHANGED <<import_state_file, state, repos, start_pos, exit,
                           args, prompted, fresh>>
    /\ last_input' = IF asked THEN response ELSE last_input
    /\ UNCHANGED <<store, max_active_projects, source, session, killed,
                   invoked, calls, cmd, runs, ops>>

\* Lines 711-713
Finish ==
    /\ pc = "finish"
    /\ import_state_file' = clear_import_state
    /\ out' = out \o <<Out("completion_summary", TheState.current_position,
                            TheState.processed.imported_as_active,
                            TheState.processed.imported_as_archived, "")>>
    /\ EndRun("COMPLETED")
    /\ UNCHANGED <<store, max_active_projects, source, last_input, session, killed,
                   invoked, calls, cmd, runs, ops>>

\* The process is terminated: memory is lost, the files stay as they are.
Kill ==
    /\ pc # "idle"
    /\ killed' = state
    /\ session' = [kept |-> <<>>, decided |-> <<>>, clean |-> FALSE]
    /\ EndRun("KILLED")
    /\ invoked' = {}
    /\ UNCHANGED <<store, import_state_file, max_active_projects, source,
                   out, last_input, calls, cmd, runs, ops>>

\* Lines 656-663 when the storage raises inside the handler (OSError on a
\* read or a write): neither handler nor loop has a try block, so the
\* exception leaves import_github_repos.  stage "save": nothing was written;
\* stage "index": the record was written and update_project_index raised.
RaiseStages == {"save", "index"}

Raise(token, confirm, stage) ==
    LET start_idx == (batch_num - 1) * BATCH_SIZE
        repo == Remaining(repos, start_pos)[start_idx + i + 1]
        index == GlobalIndex
        n == Cardinality(active_regular)
        d == IF args.ai_mode THEN ai_decision(token, n, max_active_projects)
             ELSE interactive_decision(token, confirm, n, max_active_projects)
        c == create_project_from_repo(repo, d.status)
    IN
    /\ pc = "present"
    /\ token \in (IF args.ai_mode THEN AiLines ELSE Keys)
    /\ stage \in RaiseStages
    /\ ~d.quit
    /\ d.status # ""
    /\ stage = "index" => ~c.skipped
    /\ last_input' = token
    /\ IF stage = "index"
       THEN /\ projects_dir' = c.pd
            /\ completed_dir' = c.cd
            /\ archived_dir' = c.ad
            /\ UNCHANGED index_file
       ELSE UNCHANGED store
    /\ out' = out \o <<Out("traceback", index, 0, 0, stage)>>
    /\ session' = [kept |-> <<>>, decided |-> <<>>, clean |-> FALSE]
    /\ EndRun("CRASHED")
    /\ UNCHANGED <<import_state_file, max_active_projects, source, killed,
                   invoked, calls, cmd, runs, ops>>

\* ------------------------------------------------------------ cli commands
Ids == {slugify(Pool[k].name) : k \in 1..Len(Pool)} \cup {slugify(n) : n \in UserNames}

\* What a command printed: the questions it asked, in order, the lines it
\* reported, and for batch the ids of its "affected", "skipped" and "errors"
\* lists; options are what it was called with.
Lists(affected, skipped, errors) ==
    [affected |-> affected, skipped |-> skipped, errors |-> errors]

NoLists == Lists(<<>>, <<>>, <<>>)

Report(command, options, asked, success, messages, lists) ==
    [command |-> command, options |-> options, asked |-> asked,
     success |-> success, messages |-> messages, lists |-> lists]

\* a gate that asks even under --yes
new_refused_ignores_yes(at_limit, yes, confirm) == at_limit /\ ~confirm

\* "if not yes and not click.confirm(...): ... return" (cli.py 739, 750)
new_refused(at_limit, yes, confirm) == at_limit /\ ~yes /\ ~confirm

\* jnl new NAME [--ongoing] [--maintenance] [--yes], cli.py lines 701-796;
\* confirm answers the "Really start ...?" question, git tells that
\* detect_git_repo found a repository in the working directory.
New(name, ongoing, maintenance, yes, confirm, git) ==
    LET projects == list_projects
        regular_now == {p \in projects : p.status = "in-progress"
                          /\ p.last_active <= ActiveDays /\ p.project_type = "regular"}
        ongoing_now == {p \in projects : p.status = "in-progress"
                          /\ p.last_active <= OngoingDays /\ p.project_type = "ongoing"}
        at_limit == IF ongoing
                    THEN Cardinality(ongoing_now) >= DefaultMaxOngoing
                    ELSE Cardinality(regular_now) >= max_active_projects
        refused == new_refused(at_limit, yes, confirm)
        project_id == slugify(name)
        project_type == IF maintenance THEN "maintenance"
                        ELSE IF ongoing THEN "ongoing" ELSE "regular"
        project == Project(project_id, name, "in-progress", project_type, 0, 0)
        w == save_project(project, projects_dir, completed_dir)
        a == [name |-> name, ongoing |-> ongoing, maintenance |-> maintenance,
              yes |-> yes]
        both == ongoing /\ maintenance
        exists == load_project(project_id) # {}
        gate_line == IF ~both /\ at_limit THEN <<"You already have">> ELSE <<>>
        gate_asked == IF ~both /\ at_limit /\ ~yes
                      THEN <<IF ongoing THEN "Really start another ongoing project?"
                             ELSE "Really start something new?">>
                      ELSE <<>>
        created == ~both /\ ~refused /\ ~exists
        link_asked == IF created /\ git /\ ~yes THEN <<"Link to this project?">>
                      ELSE <<>>
        last_line == IF both THEN "cannot be both --ongoing and --maintenance"
                     ELSE IF refused THEN "Good choice!"
                     ELSE IF exists THEN "already exists"
                     ELSE "Created project"
    IN
    /\ pc = "idle"
    /\ ops < MaxOps
    /\ ops' = ops + 1
    /\ IF ~created
       THEN UNCHANGED store
       ELSE /\ projects_dir' = w.pd
            /\ completed_dir' = w.cd
            /\ index_file' = IndexOf(w.pd, w.cd)
            /\ UNCHANGED archived_dir
    /\ cmd' = {Report("new", a, gate_asked \o link_asked, created,
                      gate_line \o <<last_line>>, NoLists)}
    /\ UNCHANGED <<import_state_file, max_active_projects, source, run, session,
                   killed, invoked, calls, runs>>

\* "tag in project.tags", project.tags.append(tag), project.tags.remove(tag)
HasTag(tags, tag) == \E k \in 1..Len(tags) : tags[k] = tag

RECURSIVE RemoveTag(_, _)
RemoveTag(tags, tag) ==
    IF tags = <<>> THEN <<>>
    ELSE IF Head(tags) = tag THEN Tail(tags)
    ELSE <<Head(tags)>> \o RemoveTag(Tail(tags), tag)

\* an update that saves whatever it loaded
update_writes_always(found, changes) == found

\* "if not project: ... return" (1837) and "if not changes: ... return" (1883)
\* come before "project.last_active = date.today()" and the save
update_writes(found, changes) == found /\ changes # <<>>

\* jnl update ID [--completion N] [--priority P] [--add-tag T] [--remove-tag T]
\* [--next-steps S] [--status S] [--format F], cli.py lines 1835-1895.
\* completion < 0, "" and FALSE stand for an option that was not given;
\* next_steps stands for --next-steps and --blockers, whose fields the
\* record of the model does not carry.
Update(project_id, completion, priority, add_tag, remove_tag, next_steps, status, format) ==
    LET loaded == load_project(project_id)
        p0 == CHOOSE p \in loaded : TRUE
        p1 == IF completion >= 0 THEN [p0 EXCEPT !.completion = completion] ELSE p0
        p2 == IF priority # "" THEN [p1 EXCEPT !.priority = priority] ELSE p1
        adds == add_tag # "" /\ ~HasTag(p2.tags, add_tag)
        p3 == IF adds THEN [p2 EXCEPT !.tags = Append(@, add_tag)] ELSE p2
        removes == remove_tag # "" /\ HasTag(p3.tags, remove_tag)
        p4 == IF removes THEN [p3 EXCEPT !.tags = RemoveTag(@, remove_tag)] ELSE p3
        p5 == IF status # "" THEN [p4 EXCEPT !.status = status] ELSE p4
        changes == (IF completion >= 0 THEN <<"completion">> ELSE <<>>)
                   \o (IF priority # "" THEN <<"priority">> ELSE <<>>)
                   \o (IF adds THEN <<"added tag">> ELSE <<>>)
                   \o (IF removes THEN <<"removed tag">> ELSE <<>>)
                   \o (IF next_steps THEN <<"next_steps updated">> ELSE <<>>)
                   \o (IF status # "" THEN <<"status">> ELSE <<>>)
        project == [p5 EXCEPT !.last_active = 0]
        w == save_project(project, projects_dir, completed_dir)
        a == [project_id |-> project_id, completion |-> completion,
              priority |-> priority, add_tag |-> add_tag, remove_tag |-> remove_tag,
              next_steps |-> next_steps, status |-> status, format |-> format]
    IN
    /\ pc = "idle"
    /\ ops < MaxOps
    /\ ops' = ops + 1
    /\ IF update_writes(loaded # {}, changes)
       THEN /\ projects_dir' = w.pd
            /\ completed_dir' = w.cd
            /\ UNCHANGED <<archived_dir, index_file>>
       ELSE UNCHANGED store
    /\ cmd' = IF loaded = {}
              THEN {Report("update", a, <<>>, FALSE, <<"error: not found">>, NoLists)}
              ELSE IF changes = <<>>
              THEN {Report("update", a, <<>>, FALSE,
                           <<"error: No fields specified to update">>, NoLists)}
              ELSE {Report("update", a, <<>>, TRUE, changes, NoLists)}
    /\ UNCHANGED <<import_state_file, max_active_projects, source, run, session,
                   killed, invoked, calls, runs>>

\* Storage.move_to_completed, storage.py lines 203-211
move_to_completed(p, pd, cd) ==
    IF HasFile(pd, p.id)
    THEN LET w == save_project([p EXCEPT !.status = "completed"], pd, cd)
         IN [pd |-> Unlink(w.pd, p.id), cd |-> w.cd]
    ELSE [pd |-> pd, cd |-> cd]

\* jnl done ID --yes, cli.py lines 1214-1245
Done(project_id) ==
    LET loaded == load_project(project_id)
        p0 == CHOOSE p \in loaded : TRUE
        project == [p0 EXCEPT !.completion = 100, !.status = "completed",
                              !.last_active = 0]
        w == move_to_completed(project, projects_dir, completed_dir)
    IN
    /\ pc = "idle"
    /\ ops < MaxOps
    /\ ops' = ops + 1
    /\ IF loaded = {} \/ p0.status = "completed"
       THEN UNCHANGED store
       ELSE /\ projects_dir' = w.pd
            /\ completed_dir' = w.cd
            /\ index_file' = IndexOf(w.pd, w.cd)
            /\ UNCHANGED archived_dir
    /\ cmd' = {Report("done", [project_id |-> project_id], <<>>,
                      loaded # {} /\ p0.status # "completed",
                      <<IF loaded = {} THEN "error: not found"
                        ELSE IF p0.status = "completed" THEN "already completed"
                        ELSE "completed">>, NoLists)}
    /\ UNCHANGED <<import_state_file, max_active_projects, source, run, session,
                   killed, invoked, calls, runs>>

\* Storage.list_projects(include_archived=...): the active and the completed
\* area, and the archive area when asked for, each in directory order.
RECURSIVE SeqOf(_)
SeqOf(S) ==
    IF S = {} THEN <<>>
    ELSE LET x == CHOOSE x \in S : TRUE IN <<x>> \o SeqOf(S \ {x})

list_projects_including(include_archived) ==
    SeqOf(projects_dir) \o SeqOf(completed_dir)
        \o (IF include_archived THEN SeqOf(archived_dir) ELSE <<>>)

\* Storage.move_to_archived: the record leaves projects/ for the archive area
move_to_archived(p, pd, ad) ==
    IF HasFile(pd, p.id)
    THEN [pd |-> Unlink(pd, p.id), ad |-> WriteFile(ad, [p EXCEPT !.status = "archived"])]
    ELSE [pd |-> pd, ad |-> ad]

\* --filter EXPR: "field=value" or "field>n"; a field the project does not
\* have filters nothing (cli.py 1650-1674)
FilterExprs == {"", "completion>40", "priority=high", "owner=x"}

filter_expr_drops(p, filter_expr) ==
    CASE filter_expr = "completion>40" -> p.completion <= 40
      [] filter_expr = "priority=high" -> p.priority # "high"
      [] OTHER -> FALSE

\* the filters of jnl batch; "" and FALSE stand for a filter that was not given
BatchFilter(project_type, status, tag, priority, dormant, filter_expr) ==
    [project_type |-> project_type, status |-> status, tag |-> tag,
     priority |-> priority, dormant |-> dormant, filter_expr |-> filter_expr]

\* cli.py 1636-1676, with --dormant-days at its default
batch_matches(p, f) ==
    /\ f.project_type # "" => p.project_type = f.project_type
    /\ f.status # "" => p.status = f.status
    /\ f.tag # "" => HasTag(p.tags, f.tag)
    /\ f.priority # "" => p.priority = f.priority
    /\ f.dormant => ~(p.status = "completed" \/ p.last_active <= ActiveDays)
    /\ ~filter_expr_drops(p, f.filter_expr)

\* int(action_value) for the values the specification draws from ("x" raises
\* ValueError, which is -1 here)
IntOf(v) == CASE v = "90" -> 90 [] v = "0" -> 0 [] v = "101" -> 101 [] OTHER -> -1

\* a dry run that writes all the same
batch_applies_always(dry_run) == TRUE

\* "if not dry_run:" (cli.py 1706, 1718, 1739, 1761, 1780)
batch_applies(dry_run) == ~dry_run

\* What the loop of cli.py 1699-1777 does with one project: "affected",
\* "skipped" or "errors", and the record it writes when it applies.
batch_item(p, action, action_value) ==
    CASE action = "archive" ->
            IF p.status = "archived" THEN [list |-> "skipped", p |-> p]
            ELSE [list |-> "affected", p |-> [p EXCEPT !.status = "archived"]]
      [] action = "set-priority" ->
            IF action_value = "" THEN [list |-> "errors", p |-> p]
            ELSE [list |-> "affected", p |-> [p EXCEPT !.priority = action_value]]
      [] action = "add-tag" ->
            IF action_value = "" THEN [list |-> "errors", p |-> p]
            ELSE IF HasTag(p.tags, action_value) THEN [list |-> "skipped", p |-> p]
            ELSE [list |-> "affected", p |-> [p EXCEPT !.tags = Append(@, action_value)]]
      [] OTHER ->
            IF action_value = "" \/ IntOf(action_value) < 0 \/ IntOf(action_value) > 100
            THEN [list |-> "errors", p |-> p]
            ELSE [list |-> "affected",
                  p |-> [p EXCEPT !.completion = IntOf(action_value)]]

\* The loop: the store after the projects of `filtered` were handled in
\* order, and the three result lists.
RECURSIVE batch_loop(_, _, _, _, _)
batch_loop(filtered, action, action_value, dry_run, acc) ==
    IF filtered = <<>> THEN acc
    ELSE LET p == Head(filtered)
             it == batch_item(p, action, action_value)
             applies == it.list = "affected" /\ batch_applies(dry_run)
             ma == move_to_archived(it.p, acc.pd, acc.ad)
             w == save_project(it.p, acc.pd, acc.cd)
             next == [pd |-> IF ~applies THEN acc.pd
                             ELSE IF action = "archive" THEN ma.pd ELSE w.pd,
                      cd |-> IF applies /\ action # "archive" THEN w.cd ELSE acc.cd,
                      ad |-> IF applies /\ action = "archive" THEN ma.ad ELSE acc.ad,
                      affected |-> IF it.list = "affected"
                                   THEN Append(acc.affected, p.id) ELSE acc.affected,
                      skipped |-> IF it.list = "skipped"
                                  THEN Append(acc.skipped, p.id) ELSE acc.skipped,
                      errors |-> IF it.list = "errors"
                                 THEN Append(acc.errors, p.id) ELSE acc.errors]
         IN batch_loop(Tail(filtered), action, action_value, dry_run, next)

batch_run(f, action, action_value, dry_run) ==
    LET projects == list_projects_including(f.status = "archived")
        filtered == SelectSeq(projects, LAMBDA p : batch_matches(p, f))
    IN [matched |-> Len(filtered),
        result |-> batch_loop(filtered, action, action_value, dry_run,
                              [pd |-> projects_dir, cd |-> completed_dir,
                               ad |-> archived_dir, affected |-> <<>>,
                               skipped |-> <<>>, errors |-> <<>>])]

BatchActions == {"archive", "set-priority", "add-tag", "set-completion"}

\* jnl batch [filters] --action A [--action-value V] [--dry-run], cli.py
\* lines 1608-1809
Batch(f, action, action_value, dry_run) ==
    LET b == batch_run(f, action, action_value, dry_run)
        r == b.result
        a == [filter |-> f, action |-> action, action_value |-> action_value,
              dry_run |-> dry_run]
    IN
    /\ pc = "idle"
    /\ ops < MaxOps
    /\ ops' = ops + 1
    /\ action \in BatchActions
    /\ projects_dir' = r.pd
    /\ completed_dir' = r.cd
    /\ archived_dir' = r.ad
    /\ index_file' = IF batch_applies(dry_run) /\ r.affected # <<>>
                     THEN IndexOf(r.pd, r.cd) ELSE index_file
    /\ cmd' = IF b.matched = 0
              THEN {Report("batch", a, <<>>, FALSE,
                           <<"No projects match the filters">>, NoLists)}
              ELSE {Report("batch", a, <<>>, TRUE,
                           IF dry_run THEN <<"DRY RUN - No changes applied">> ELSE <<>>,
                           Lists(r.affected, r.skipped, r.errors))}
    /\ UNCHANGED <<import_state_file, max_active_projects, source, run, session,
                   killed, invoked, calls, runs>>

\* ------------------------------------------------------------ specification
GhResults == {"ok", "unauth", "missing"}

\* The tokens the main specification draws from: one per branch it explores.
MainLines == {"Active", "o", "", "Q", EOF}
MainKeys == {"A", "s", "enter", "Q"}

Next ==
    \/ \E ai, json, resume, preview, force_new, confirm \in BOOLEAN, gh \in GhResults :
          StartRun(ai, json, resume, preview, force_new, gh, confirm)
    \/ \E fetched, ia, ifk, ro \in BOOLEAN : FetchRepos(fetched, ia, ifk, ro)
    \/ \E token \in MainLines \cup MainKeys, confirm \in BOOLEAN : ProcessRepo(token, confirm)
    \/ SaveAfterRepo
    \/ \E response \in BatchAnswers : BatchEnd(response)
    \/ Finish
    \/ Kill

Spec == Init /\ [][Next]_vars

\* The store under the commands and the machine-mode import together.
NextStore ==
    \/ runs < StoreRuns /\ StartRun(TRUE, FALSE, FALSE, FALSE, FALSE, "ok", FALSE)
    \/ FetchRepos(TRUE, FALSE, FALSE, FALSE)
    \/ \E token \in MainLines : ProcessRepo(token, FALSE)
    \/ SaveAfterRepo
    \/ BatchEnd("")
    \/ Finish
    \/ \E name \in UserNames, ongoing, maintenance, yes, confirm \in BOOLEAN :
          New(name, ongoing, maintenance, yes, confirm, FALSE)
    \/ \E id \in Ids, completion \in {-1, 50},
          status \in {"", "in-progress", "completed", "archived"} :
          Update(id, completion, "", "", "", FALSE, status, "json")
    \/ \E id \in Ids : Done(id)

SpecStore == Init /\ [][NextStore]_vars

\* The end-to-end scenario: twelve repositories with distinct identifiers, the
\* default ceiling, machine mode, every item classified active.
E2ENames == <<"a", "b", "c", "d", "e", "f", "g", "h", "i", "j", "k", "l">>
E2ERepos == [k \in 1..Len(E2ENames) |-> Repo(<<E2ENames[k]>>, FALSE, FALSE, 1, 7, 0)]

InitE2E ==
    /\ InitStore
    /\ max_active_projects = DefaultMaxActive
    /\ source = E2ERepos

NextE2E ==
    \/ \E json \in BOOLEAN : StartRun(TRUE, json, FALSE, FALSE, FALSE, "ok", FALSE)
    \/ FetchRepos(TRUE, FALSE, FALSE, FALSE)
    \/ \E token \in {"Active", "a"} : ProcessRepo(token, FALSE)
    \/ SaveAfterRepo
    \/ BatchEnd("")
    \/ Finish

SpecE2E == InitE2E /\ [][NextE2E]_vars

\* apply_filters on its own: every list of up to MaxFilterLen repositories
\* drawn from one repository per rule (and per boundary), every flag
\* combination, and a second call on the kept list of the first.
FilterPool ==
    { Repo(<<"a">>, FALSE, FALSE, 1, 7, 0),
      Repo(<<"e">>, TRUE, FALSE, 2, 7, 0),
      Repo(<<"d">>, FALSE, TRUE, 0, 7, 0),
      Repo(<<"f">>, FALSE, TRUE, 3, 7, 0),
      Repo(<<"g">>, FALSE, FALSE, 1, 0, 0),
      Repo(<<"b">>, FALSE, FALSE, 1, 7, 30 * RecentMonths + 1),
      Repo(<<"c">>, FALSE, FALSE, 1, 7, 30 * RecentMonths),
      Repo(<<"h">>, TRUE, TRUE, 0, 0, 200) }

FilterInputs == UNION {[1..n -> FilterPool] : n \in 0..MaxFilterLen}

Call(input, ia, ifk, ro) ==
    LET f == apply_filters(input, ia, ifk, ro, RecentMonths)
    IN [input |-> input, include_archived |-> ia, include_forks |-> ifk,
        recent_only |-> ro, kept |-> f.kept, filtered_out |-> f.filtered_out]

InitFilter ==
    /\ InitStore
    /\ max_active_projects = DefaultMaxActive
    /\ source \in FilterInputs

\* filtered_repos, filtered_out = apply_filters(all_repos, ...)
ApplyFilters(ia, ifk, ro) ==
    /\ calls = <<>>
    /\ calls' = <<Call(source, ia, ifk, ro)>>
    /\ UNCHANGED <<store, import_state_file, max_active_projects, source, run,
                   session, killed, invoked, cmd, runs, ops>>

\* apply_filters(filtered_repos, ...) with the flags of the first call
ReapplyFilters ==
    /\ Len(calls) = 1
    /\ calls' = Append(calls, Call(calls[1].kept, calls[1].include_archived,
                                   calls[1].include_forks, calls[1].recent_only))
    /\ UNCHANGED <<store, import_state_file, max_active_projects, source, run,
                   session, killed, invoked, cmd, runs, ops>>

NextFilter ==
    \/ \E ia, ifk, ro \in BOOLEAN : ApplyFilters(ia, ifk, ro)
    \/ ReapplyFilters

SpecFilter == InitFilter /\ [][NextFilter]_vars

\* More than one batch: twelve repositories, both modes, items skipped or quit.
InitBatch ==
    /\ InitStore
    /\ max_active_projects = DefaultMaxActive
    /\ source = E2ERepos

NextBatch ==
    \/ \E ai, json \in BOOLEAN : StartRun(ai, json, FALSE, FALSE, FALSE, "ok", TRUE)
    \/ FetchRepos(TRUE, FALSE, FALSE, FALSE)
    \/ \E token \in {"s", "Q"} : ProcessRepo(token, FALSE)
    \/ SaveAfterRepo
    \/ \E response \in BatchAnswers : BatchEnd(response)
    \/ Finish

SpecBatch == InitBatch /\ [][NextBatch]_vars

\* The per-item handlers: one letter per branch, the same letters on both
\* channels, every answer to the override question.
ItemTokens == {"a", "o", "m", "s", "", "q"}

NextItem ==
    \/ \E ai \in BOOLEAN : StartRun(ai, FALSE, FALSE, FALSE, FALSE, "ok", TRUE)
    \/ FetchRepos(TRUE, FALSE, FALSE, FALSE)
    \/ \E token \in ItemTokens, confirm \in BOOLEAN : ProcessRepo(token, confirm)
    \/ SaveAfterRepo
    \/ BatchEnd("")
    \/ Finish

SpecItem == Init /\ [][NextItem]_vars

\* The import when the storage may fail under it.
NextFault ==
    \/ \E ai \in BOOLEAN : StartRun(ai, FALSE, FALSE, FALSE, FALSE, "ok", TRUE)
    \/ FetchRepos(TRUE, FALSE, FALSE, FALSE)
    \/ \E token \in MainLines \cup MainKeys : ProcessRepo(token, FALSE)
    \/ \E token \in MainLines \cup MainKeys, stage \in RaiseStages :
          Raise(token, FALSE, stage)
    \/ SaveAfterRepo
    \/ BatchEnd("")
    \/ Finish

SpecFault == Init /\ [][NextFault]_vars

\* The prompts of the two channels with everything that may be entered at
\* them, on both platforms of the human channel.
NextKeys ==
    \/ \E ai, force_new \in BOOLEAN : StartRun(ai, FALSE, FALSE, FALSE, force_new, "ok", TRUE)
    \/ FetchRepos(TRUE, FALSE, FALSE, FALSE)
    \/ \E typed \in HumanInputs, confirm \in BOOLEAN : Keypress(typed, confirm)
    \/ \E line \in AiLines : ReadLine(line)
    \/ SaveAfterRepo
    \/ BatchEnd("")
    \/ Finish

SpecKeys == Init /\ [][NextKeys]_vars

\* Sessions of runs that are quit, killed, resumed and restarted in every
\* way the flags and the resume question allow.
ResumeTokens == {"a", "o", "s", "", "q"}

NextResume ==
    \/ \E ai, resume, force_new, confirm \in BOOLEAN :
          StartRun(ai, FALSE, resume, FALSE, force_new, "ok", confirm)
    \/ FetchRepos(TRUE, FALSE, FALSE, FALSE)
    \/ \E token \in ResumeTokens : ProcessRepo(token, FALSE)
    \/ SaveAfterRepo
    \/ BatchEnd("")
    \/ Finish
    \/ Kill

SpecResume == Init /\ [][NextResume]_vars

\* Machine-mode runs whose input never ends and never says quit.  A run may
\* find the checkpoint of an earlier run that was quit after p skipped items
\* (over a list that may have been longer than the one fetched now), and the
\* account may hold nothing, or nothing that passes the filters.
Checkpoint(p) ==
    [create_new_import_state EXCEPT
        !.stats = [total_repos |-> MaxRepos, filtered_out |-> 0, remaining |-> MaxRepos],
        !.processed = Counters(0, 0, 0, 0, p),
        !.repos_processed = [k \in 1..p |-> [name |-> Pool[k].name, action |-> "skip"]],
        !.current_position = p]

LiveSources == Sources \cup {<<Pool[5]>>}

LiveLines == {"Active", "o", "skip", "later", ""}

InitLive ==
    /\ projects_dir = {}
    /\ completed_dir = {}
    /\ archived_dir = {}
    /\ index_file = {}
    /\ import_state_file \in {{}} \cup {{Checkpoint(p)} : p \in 0..MaxRepos}
    /\ max_active_projects = MaxActive
    /\ source \in LiveSources
    /\ pc = "idle"
    /\ args = NoArgs
    /\ state = {}
    /\ repos = <<>>
    /\ start_pos = 0
    /\ batch_num = 0
    /\ i = 0
    /\ out = <<>>
    /\ exit = "NONE"
    /\ last_input = ""
    /\ prompted = <<>>
    /\ fresh = FALSE
    /\ session = NoSession
    /\ killed = {}
    /\ invoked = {}
    /\ calls = <<>>
    /\ cmd = {}
    /\ runs = 0
    /\ ops = 0

StartMachineRun ==
    \E json, resume, force_new \in BOOLEAN :
        StartRun(TRUE, json, resume, FALSE, force_new, "ok", FALSE)

NextLive ==
    \/ StartMachineRun
    \/ FetchRepos(TRUE, FALSE, FALSE, FALSE)
    \/ \E line \in LiveLines : ProcessRepo(line, FALSE)
    \/ SaveAfterRepo
    \/ BatchEnd("")
    \/ Finish

\* Once invoked the program takes its next step whenever it can: the fetch
\* returns, a line is there to be read at every prompt, and the loop goes on.
\* Nothing obliges anybody to invoke it again.
SpecLive ==
    /\ InitLive
    /\ [][NextLive]_vars
    /\ WF_vars(FetchRepos(TRUE, FALSE, FALSE, FALSE))
    /\ WF_vars(\E line \in LiveLines : ProcessRepo(line, FALSE))
    /\ WF_vars(SaveAfterRepo)
    /\ WF_vars(BatchEnd(""))
    /\ WF_vars(Finish)

\* The commands on their own.  The store they start from is one that earlier
\* invocations left: two ongoing projects started today and a regular one
\* last touched a month ago, each present or not.
CliSeeds ==
    { Project(<<"d">>, <<"d">>, "in-progress", "ongoing", 0, 0),
      Project(<<"e">>, <<"e">>, "in-progress", "ongoing", 0, 0),
      Project(<<"a">>, <<"a">>, "in-progress", "regular", 50, 30) }

InitCli ==
    /\ projects_dir \in SUBSET CliSeeds
    /\ completed_dir = {}
    /\ archived_dir = {}
    /\ index_file = IndexOf(projects_dir, completed_dir)
    /\ import_state_file = {}
    /\ max_active_projects = MaxActive
    /\ source = <<>>
    /\ pc = "idle"
    /\ args = NoArgs
    /\ state = {}
    /\ repos = <<>>
    /\ start_pos = 0
    /\ batch_num = 0
    /\ i = 0
    /\ out = <<>>
    /\ exit = "NONE"
    /\ last_input = ""
    /\ prompted = <<>>
    /\ fresh = FALSE
    /\ session = NoSession
    /\ killed = {}
    /\ invoked = {}
    /\ calls = <<>>
    /\ cmd = {}
    /\ runs = 0
    /\ ops = 0

\* The options of jnl update the specification draws from: none, each field
\* option on its own, and a tag added or removed.
UpdateOptions ==
    { [completion |-> -1, priority |-> "", add_tag |-> "", remove_tag |-> "",
       next_steps |-> FALSE, status |-> ""],
      [completion |-> 0, priority |-> "", add_tag |-> "", remove_tag |-> "",
       next_steps |-> FALSE, status |-> ""],
      [completion |-> -1, priority |-> "high", add_tag |-> "", remove_tag |-> "",
       next_steps |-> FALSE, status |-> ""],
      [completion |-> -1, priority |-> "", add_tag |-> "t", remove_tag |-> "",
       next_steps |-> FALSE, status |-> ""],
      [completion |-> -1, priority |-> "", add_tag |-> "", remove_tag |-> "t",
       next_steps |-> FALSE, status |-> ""],
      [completion |-> -1, priority |-> "", add_tag |-> "", remove_tag |-> "",
       next_steps |-> TRUE, status |-> ""],
      [completion |-> -1, priority |-> "", add_tag |-> "", remove_tag |-> "",
       next_steps |-> FALSE, status |-> "completed"] }

NextCli ==
    \/ \E name \in UserNames, ongoing, maintenance, yes, confirm, git \in BOOLEAN :
          New(name, ongoing, maintenance, yes, confirm, git)
    \/ \E id \in Ids, o \in UpdateOptions, format \in {"json", "text"} :
          Update(id, o.completion, o.priority, o.add_tag, o.remove_tag,
                 o.next_steps, o.status, format)
    \/ \E id \in Ids : Done(id)

SpecCli == InitCli /\ [][NextCli]_vars

\* jnl batch on its own, with jnl update to give the projects tags,
\* priorities and a status.  One filter of each kind, each action, and a
\* missing, an out-of-range and a malformed value.
BatchFilters ==
    { BatchFilter("", "", "", "", FALSE, e) : e \in FilterExprs }
    \cup { BatchFilter("ongoing", "", "", "", FALSE, ""),
           BatchFilter("", "in-progress", "", "", FALSE, ""),
           BatchFilter("", "archived", "", "", FALSE, ""),
           BatchFilter("", "", "t", "", FALSE, ""),
           BatchFilter("", "", "", "high", FALSE, ""),
           BatchFilter("", "", "", "", TRUE, "") }

BatchCalls ==
    { <<"archive", "">>, <<"set-priority", "high">>, <<"set-priority", "">>,
      <<"add-tag", "t">>, <<"set-completion", "90">>, <<"set-completion", "101">>,
      <<"set-completion", "x">> }

NextDry ==
    \/ \E id \in {<<"a">>, <<"d">>}, o \in UpdateOptions :
          /\ o.completion < 0 /\ ~o.next_steps /\ o.remove_tag = ""
          /\ Update(id, o.completion, o.priority, o.add_tag, o.remove_tag,
                    o.next_steps, o.status, "json")
    \/ \E f \in BatchFilters, c \in BatchCalls, dry_run \in BOOLEAN :
          Batch(f, c[1], c[2], dry_run)

SpecDry == InitCli /\ [][NextDry]_vars

\* ================================================================ claims
\* The checkpoint as a reader finds it: a missing file reads as a fresh state.
DiskState ==
    IF import_state_file = {} THEN create_new_import_state
    ELSE CHOOSE st \in import_state_file : TRUE

LastOf(seq) == seq[Len(seq)]

Between == {"present", "batch_end", "finish"}

\* C1: after every non-quit decision for the item at global index i, the
\* decision record is appended, current_position is i, and the whole
\* ImportState is in the checkpoint file before the next item is presented
\* (or the batch ends), in human and in machine mode.
C1_CheckpointAfterEveryItem ==
    /\ (pc \in Between \cup {"save"} /\ prompted # <<>>) =>
          /\ TheState.current_position = LastOf(prompted)
          /\ TheState.repos_processed # <<>>
          /\ LastOf(TheState.repos_processed).name = repos[LastOf(prompted)].name
    /\ (pc \in Between /\ prompted # <<>>) => import_state_file = state

C1_Witness ==
    /\ pc = "present"
    /\ ~args.ai_mode
    /\ Len(prompted) = 1
    /\ import_state_file = state
    /\ TheState.current_position = 1

QuitInputs == {"quit", "q", "Q", EOF}

\* C3: a quit token (quit, q, or end of input in machine mode) at the item
\* with global index i writes the ImportState with current_position i-1 and
\* the counters and log as they were, touches no record, and ends the run
\* PAUSED; a run that loads a checkpoint prompts first for the item right
\* after the loaded current_position.
C3_QuitStep ==
    /\ pc = "present"
    /\ pc' # "present"
    /\ last_input' \in QuitInputs
    /\ exit' # "KILLED"

C3_QuitThenResume ==
    [][ /\ C3_QuitStep =>
            /\ exit' = "PAUSED"
            /\ pc' = "idle"
            /\ import_state_file' # {}
            /\ import_state_file' = state
            /\ (CHOOSE st \in import_state_file' : TRUE).current_position = GlobalIndex - 1
            /\ UNCHANGED store
        /\ (pc = "present" /\ pc' = "save" /\ prompted = <<>> /\ ~fresh) =>
            /\ import_state_file # {}
            /\ LastOf(prompted') = DiskState.current_position + 1
            /\ LastOf(TheState'.repos_processed).name
                 = repos[DiskState.current_position + 1].name
      ]_vars

C3_Witness ==
    /\ pc = "save"
    /\ ~fresh
    /\ session.clean
    /\ prompted = <<2>>
    /\ DiskState.current_position = 1

\* C4: in a session of pause/resume cycles over the same filtered list, no
\* item is decided twice: the decisions are items 1, 2, ... in order, a
\* resumed run decides exactly kept[current_position:], and at completion
\* every kept item has been decided exactly once.
C4_ResumeNeverRepeats ==
    (session.clean /\ pc # "idle" /\ pc # "fetch") =>
        /\ \A k \in 1..Len(session.decided) : session.decided[k] = k
        /\ \A k \in 1..Len(prompted) : prompted[k] = start_pos + k
        /\ start_pos + Len(prompted) = Len(session.decided)
        /\ pc = "finish" => Len(session.decided) = Len(repos)

C4_Witness ==
    /\ pc = "finish"
    /\ session.clean
    /\ ~fresh
    /\ start_pos = 1
    /\ prompted = <<2>>

\* the actions logged by the default branch (archive, Enter, anything else)
ArchiveAction(ai_mode, action) ==
    IF ai_mode
    THEN action \notin {"quit", "q", "active", "a", "ongoing", "o", "maintenance", "m",
                        "skip", "s"}
    ELSE action \notin {"q", "a", "o", "s"}

\* C5: a run that started from a fresh ImportState and has so far received N
\* archive decisions and nothing else has current_position = N and
\* imported_as_archived = N in the checkpoint, every other counter 0.
C5_ArchiveRun ==
    (fresh /\ pc \in Between /\ Len(prompted) = Len(TheState.repos_processed)
       /\ \A k \in 1..Len(TheState.repos_processed) :
              ArchiveAction(args.ai_mode, TheState.repos_processed[k].action)) =>
        /\ DiskState.current_position = Len(prompted)
        /\ DiskState.processed = Counters(0, 0, 0, Len(prompted), 0)

C5_Witness ==
    /\ fresh
    /\ pc = "finish"
    /\ Len(prompted) = 2
    /\ \A k \in 1..2 : ArchiveAction(args.ai_mode, TheState.repos_processed[k].action)
    /\ DiskState.processed.imported_as_archived = 2

\* tracked/default records anywhere in the store
TrackedDefault(pd, cd, ad) ==
    {p \in pd \cup cd \cup ad : p.status = "in-progress" /\ p.project_type = "regular"}

ActiveLines == {l \in AiLines \ {EOF} : strip_lower(l) \in {"active", "a"}}

\* a machine-mode item classified active at or above the ceiling
C6_GateStep ==
    /\ pc = "present"
    /\ pc' = "save"
    /\ args.ai_mode
    /\ last_input' \in ActiveLines
    /\ Cardinality(TrackedDefault(projects_dir, completed_dir, archived_dir))
         >= max_active_projects

C6_NoTrackedDefault ==
    TrackedDefault(projects_dir', completed_dir', archived_dir')
        \subseteq TrackedDefault(projects_dir, completed_dir, archived_dir)

C6_ArchivedRecord ==
    \E p \in archived_dir' :
        /\ p.id = slugify(repos[GlobalIndex].name)
        /\ p.name = repos[GlobalIndex].name
        /\ p.status = "archived"

C6_Warned ==
    \E k \in (Len(out) + 1)..Len(out') :
        /\ out'[k].type = "gate_warning"
        /\ out'[k].index = GlobalIndex
        /\ out'[k].n1 = Cardinality(TrackedDefault(projects_dir, completed_dir, archived_dir))
        /\ out'[k].n2 = max_active_projects

\* C6 as stated: the gated item never becomes a tracked/default record and
\* always produces an archived record plus a warning naming limit and count.
C6_Original ==
    [][C6_GateStep => C6_NoTrackedDefault /\ C6_ArchivedRecord /\ C6_Warned]_vars

\* C6 (amended): in machine mode an item classified active at or above the
\* ceiling never becomes a tracked/default record; the run warns with the
\* limit and the count, counts it as imported_as_archived and goes on; an
\* archived record is produced unless the identifier already exists in the
\* active or completed area, in which case the store is left as it is.
C6_MachineGateDowngrades ==
    [][C6_GateStep =>
        /\ C6_NoTrackedDefault
        /\ C6_Warned
        /\ TheState'.processed.imported_as_archived
             = TheState.processed.imported_as_archived + 1
        /\ TheState'.processed.imported_as_active = TheState.processed.imported_as_active
        /\ IF load_project(slugify(repos[GlobalIndex].name)) = {}
           THEN C6_ArchivedRecord
           ELSE UNCHANGED store
      ]_vars

C6_Witness ==
    /\ pc = "save"
    /\ args.ai_mode
    /\ last_input \in ActiveLines
    /\ out # <<>>
    /\ \E k \in 1..Len(out) : out[k].type = "gate_warning" /\ out[k].index = LastOf(prompted)
                                /\ out[k].n2 = max_active_projects
    /\ \E p \in archived_dir : p.name = repos[LastOf(prompted)].name
    /\ ~\E p \in projects_dir : p.id = slugify(repos[LastOf(prompted)].name)

InStore(id) ==
    HasFile(projects_dir, id) \/ HasFile(completed_dir, id) \/ HasFile(archived_dir, id)

\* C8: handing the materializer a candidate whose identifier is already in
\* the store (active, completed or archived) changes no record, whatever the
\* decision.
C8_Original ==
    [][(pc = "present" /\ pc' = "save" /\ InStore(slugify(repos[GlobalIndex].name)))
         => UNCHANGED <<projects_dir, completed_dir, archived_dir>>]_vars

Areas(id) ==
    (IF HasFile(projects_dir, id) THEN 1 ELSE 0)
    + (IF HasFile(completed_dir, id) THEN 1 ELSE 0)
    + (IF HasFile(archived_dir, id) THEN 1 ELSE 0)

\* C9: every identifier has at most one record in the whole store.
C9_Original == \A id \in Ids : Areas(id) <= 1

\* C10: a run with preview set writes nothing: not the checkpoint, not a
\* record, not the index.
C10_PreviewStep ==
    \/ pc = "idle" /\ pc' = "fetch" /\ args'.preview
    \/ pc = "fetch" /\ args.preview

C10_Original ==
    [][C10_PreviewStep => UNCHANGED <<import_state_file, store>>]_vars

E2EProject(k, status) ==
    Project(slugify(E2ERepos[k].name), E2ERepos[k].name, status, "regular", 0,
            E2ERepos[k].pushed)

Warnings == {k \in 1..Len(out) : out[k].type = "gate_warning"}

\* C7: twelve kept candidates, ceiling 5, no prior records, all classified
\* active in machine mode: items 1-5 become tracked/default records, items
\* 6-12 are archived with one warning each, the counters end at 5 active and
\* 7 archived, and the run ends COMPLETED.
C7_EndToEnd ==
    /\ (runs = 1 /\ pc = "finish") =>
          /\ TheState.current_position = 12
          /\ TheState.processed = Counters(5, 0, 0, 7, 0)
    /\ (runs = 1 /\ pc = "idle") =>
          /\ exit = "COMPLETED"
          /\ import_state_file = {}
          /\ projects_dir = {E2EProject(k, "in-progress") : k \in 1..5}
          /\ archived_dir = {E2EProject(k, "archived") : k \in 6..12}
          /\ completed_dir = {}
          /\ {out[k].index : k \in Warnings} = 6..12
          /\ Cardinality(Warnings) = 7
          /\ \A k \in Warnings : out[k].n1 = 5 /\ out[k].n2 = 5
          /\ LastOf(out) = Out("completion_summary", 12, 5, 7, "")

C7_Witness ==
    /\ runs = 1
    /\ pc = "idle"
    /\ exit = "COMPLETED"
    /\ Cardinality(projects_dir) = 5
    /\ Cardinality(archived_dir) = 7

TheInvocation == CHOOSE v \in invoked : TRUE

\* C11: a run that is aborted by a failed fetch (or by a client that cannot be
\* run) leaves the checkpoint file and the record store exactly as the
\* invocation found them, whatever its flags and whatever the checkpoint.
C11_Original ==
    [][ /\ (pc = "fetch" /\ exit' = "FETCH_FAILED") =>
              /\ import_state_file' = TheInvocation.checkpoint
              /\ UNCHANGED store
        /\ (pc = "idle" /\ exit' = "CLIENT_ERROR" /\ runs' = runs + 1) =>
              UNCHANGED <<import_state_file, store>>
      ]_vars

\* the storage raised while the item at pc "present" was being materialized
C12_FaultStep ==
    /\ pc = "present"
    /\ out' # out
    /\ LastOf(out').type = "traceback"

\* C12: an exception raised while one candidate is materialized does not
\* leave the batch loop: the run goes on, and the position and the counters
\* of the items already committed stay as they are.
C12_Original ==
    [][C12_FaultStep =>
          /\ pc' \in {"present", "save", "batch_end", "finish"}
          /\ exit' = exit
          /\ TheState'.current_position \in {TheState.current_position, GlobalIndex}
          /\ \A k \in 1..Len(TheState.repos_processed) :
                 TheState'.repos_processed[k] = TheState.repos_processed[k]
      ]_vars

\* an invocation with resume (and without force_new) that finds no checkpoint
C13_ResumeStep ==
    /\ pc = "idle"
    /\ runs' = runs + 1
    /\ exit' # "CLIENT_ERROR"
    /\ import_state_file = {}
    /\ \E v \in invoked' : v.resume_unmet

\* C13: resume with no checkpoint: human mode reports that there is nothing
\* to resume and ends at once; machine mode silently starts a fresh
\* ImportState at position 0 and goes on to the fetch.
C13_Original ==
    [][C13_ResumeStep =>
          IF \E v \in invoked' : v.ai_mode
          THEN /\ pc' = "fetch"
               /\ state' = {create_new_import_state}
               /\ out' = <<>>
          ELSE /\ pc' = "idle"
               /\ exit' = "NOTHING_TO_RESUME"
               /\ out' = <<Out("error", 0, 0, 0, "No previous import session found")>>
               /\ UNCHANGED <<import_state_file, store>>
      ]_vars

Running == {"present", "save", "batch_end", "finish"}

\* a run that reached RUNNING ends COMPLETED with no checkpoint file, or
\* PAUSED with the current ImportState in the checkpoint file
C14_EndsOneOfTwoWays ==
    (pc \in Running /\ pc' = "idle" /\ exit' # "KILLED") =>
        \/ exit' = "COMPLETED" /\ pc = "finish" /\ import_state_file' = {}
        \/ exit' = "PAUSED" /\ import_state_file' # {} /\ import_state_file' = state

\* a run that ends before RUNNING leaves an existing checkpoint in place
C14_NotRemoved ==
    (pc = "fetch" /\ pc' = "idle" /\ TheInvocation.checkpoint # {}) =>
        import_state_file' # {}

\* C14: a run that reaches RUNNING ends COMPLETED (no checkpoint file
\* afterwards) or PAUSED (the checkpoint file holds the current ImportState),
\* and no run that does not reach completion removes the checkpoint.
C14_Original == [][C14_EndsOneOfTwoWays /\ C14_NotRemoved]_vars

\* the end of a batch that is not the last one
C15_BoundaryStep ==
    /\ pc = "batch_end"
    /\ batch_num < total_batches

\* C15: at the end of a batch that is not the last, human mode reads an
\* answer, and n or q writes the state and ends the run PAUSED with the
\* checkpoint an in-item quit at the next item would write; machine mode
\* reads nothing, never pauses there and goes on to the next batch.
C15_BatchBoundary ==
    [][C15_BoundaryStep =>
          IF args.ai_mode
          THEN /\ pc' = "present"
               /\ batch_num' = batch_num + 1
               /\ UNCHANGED <<import_state_file, last_input, exit, state>>
          ELSE IF last_input' \in {"n", "no", "q", "quit"}
          THEN /\ pc' = "idle"
               /\ exit' = "PAUSED"
               /\ import_state_file' = save_import_state(
                      quit_state(TheState, start_pos + EndIdx + 1))
               /\ TheState.current_position = start_pos + EndIdx
               /\ UNCHANGED store
          ELSE /\ pc' = "present"
               /\ batch_num' = batch_num + 1
               /\ UNCHANGED <<import_state_file, exit, state>>
      ]_vars

C15_Witness ==
    /\ pc = "idle"
    /\ exit = "PAUSED"
    /\ last_input = "n"
    /\ import_state_file # {}
    /\ DiskState.current_position = BATCH_SIZE

\* a is b with some elements left out, the others in the same order
RECURSIVE IsSubseq(_, _)
IsSubseq(a, b) ==
    IF a = <<>> THEN TRUE
    ELSE IF b = <<>> THEN FALSE
    ELSE IF Head(a) = Head(b) THEN IsSubseq(Tail(a), Tail(b))
    ELSE IsSubseq(a, Tail(b))

\* C16: apply_filters keeps a subsequence of its input in the input's order,
\* and applied to its own kept list with the same flags it returns that list
\* and a discard count of 0.
C16_IdempotentOrdered ==
    /\ \A k \in 1..Len(calls) : IsSubseq(calls[k].kept, calls[k].input)
    /\ Len(calls) = 2 =>
          /\ calls[2].input = calls[1].kept
          /\ calls[2].kept = calls[1].kept
          /\ calls[2].filtered_out = 0

C16_Witness ==
    /\ Len(calls) = 2
    /\ calls[1].filtered_out = 1
    /\ Len(calls[1].kept) = 2
    /\ calls[1].kept[1] # calls[1].kept[2]
    /\ calls[2].kept = calls[1].kept

\* the four rules as the claim words them
C17_RuleMatches(repo, c) ==
    \/ repo.archived /\ ~c.include_archived
    \/ repo.fork /\ repo.stargazers_count = 0 /\ ~c.include_forks
    \/ repo.size = 0
    \/ c.recent_only /\ repo.pushed > 30 * RecentMonths

C17_KeptOf(c) == SelectSeq(c.input, LAMBDA repo : ~C17_RuleMatches(repo, c))

\* C17: apply_filters discards an item exactly when one of the four rules
\* matches it, keeps every other item, and counts the discarded items:
\* len(kept) + discarded_count = len(input).
C17_DiscardIffRule ==
    \A k \in 1..Len(calls) :
        /\ calls[k].kept = C17_KeptOf(calls[k])
        /\ Len(calls[k].kept) + calls[k].filtered_out = Len(calls[k].input)

C17_Witness ==
    /\ Len(calls) = 1
    /\ ~calls[1].include_forks
    /\ Len(calls[1].input) = 3
    /\ calls[1].filtered_out = 2
    /\ \E k \in 1..3 : calls[1].input[k].fork /\ calls[1].input[k].stargazers_count > 0
                          /\ calls[1].kept = <<calls[1].input[k]>>

AllRecords(pd, cd, ad) == pd \cup cd \cup ad

\* the decision the handler handed to the materializer, by the counter it logged
C18_Counter == LastOf(out').action

\* an item was decided (not skipped) while its identifier was nowhere in the store
C18_NewIdStep ==
    /\ pc = "present"
    /\ pc' = "save"
    /\ C18_Counter # "skipped"
    /\ ~InStore(slugify(repos[GlobalIndex].name))

\* C18: for a candidate whose identifier does not exist yet the materializer
\* creates exactly one record: type ongoing for decision ongoing, maintenance
\* for maintenance, regular otherwise; status archived exactly for decision
\* archive, in-progress otherwise; stored in the archive area exactly when
\* archived.
C18_OneRecord ==
    [][C18_NewIdStep =>
          LET before == AllRecords(projects_dir, completed_dir, archived_dir)
              after == AllRecords(projects_dir', completed_dir', archived_dir')
              r == Project(slugify(repos[GlobalIndex].name), repos[GlobalIndex].name,
                           IF C18_Counter = "imported_as_archived"
                           THEN "archived" ELSE "in-progress",
                           CASE C18_Counter = "imported_as_ongoing" -> "ongoing"
                             [] C18_Counter = "imported_as_maintenance" -> "maintenance"
                             [] OTHER -> "regular",
                           0, repos[GlobalIndex].pushed)
          IN /\ before \subseteq after
             /\ after \ before = {r}
             /\ IF r.status = "archived"
                THEN archived_dir' = archived_dir \cup {r}
                     /\ UNCHANGED <<projects_dir, completed_dir>>
                ELSE projects_dir' = projects_dir \cup {r}
                     /\ UNCHANGED <<archived_dir, completed_dir>>
      ]_vars

C18_Witness ==
    /\ pc = "save"
    /\ Len(prompted) = 2
    /\ \E p \in projects_dir : p.project_type = "maintenance" /\ p.status = "in-progress"
    /\ \E p \in archived_dir : p.project_type = "regular" /\ p.status = "archived"
    /\ completed_dir = {}

\* a human-mode item classified active at or above the ceiling
C19_GateStep ==
    /\ pc = "present"
    /\ pc' = "save"
    /\ ~args.ai_mode
    /\ strip_lower(last_input') = "a"
    /\ Cardinality(active_regular) >= max_active_projects

\* the override question of this step and its answer
C19_Asked(answer) ==
    /\ Len(out') > Len(out)
    /\ out'[Len(out) + 1] = Out("gate_prompt", GlobalIndex, Cardinality(active_regular),
                                 0, answer)

C19_NoNewTracked ==
    TrackedDefault(projects_dir', completed_dir', archived_dir')
        \subseteq TrackedDefault(projects_dir, completed_dir, archived_dir)

C19_CountedArchived ==
    /\ TheState'.processed.imported_as_archived
         = TheState.processed.imported_as_archived + 1
    /\ TheState'.processed.imported_as_active = TheState.processed.imported_as_active

C19_CountedActive ==
    /\ TheState'.processed.imported_as_active = TheState.processed.imported_as_active + 1
    /\ TheState'.processed.imported_as_archived
         = TheState.processed.imported_as_archived

\* in human mode the tracked/default count passes the ceiling only in a step
\* whose override question was answered yes
C19_OnlyByOverride ==
    (pc = "present" /\ pc' = "save" /\ ~args.ai_mode
       /\ Cardinality(TrackedDefault(projects_dir', completed_dir', archived_dir'))
            > max_active_projects
       /\ ~C19_NoNewTracked)
    => C19_Asked("y")

\* C19 as stated: without a yes the candidate is archived (an archived
\* record of it exists) and counted as archived; only a yes creates a
\* tracked/default record above the ceiling.
C19_Original ==
    [][ /\ C19_GateStep =>
              \/ C19_Asked("n") /\ C19_NoNewTracked /\ C19_CountedArchived
                    /\ \E p \in archived_dir' :
                           /\ p.id = slugify(repos[GlobalIndex].name)
                           /\ p.name = repos[GlobalIndex].name
                           /\ p.status = "archived"
              \/ C19_Asked("y") /\ C19_CountedActive
        /\ C19_OnlyByOverride
      ]_vars

\* C19 (amended): without a yes the item is counted as archived, no
\* tracked/default record is created, and an archived record is written
\* unless the identifier already exists in the active or completed area (then
\* the store is left as it is); only a yes creates a tracked/default record
\* above the ceiling.
C19_HumanGateOverride ==
    [][ /\ C19_GateStep =>
              \/ /\ C19_Asked("n")
                 /\ C19_NoNewTracked
                 /\ C19_CountedArchived
                 /\ IF load_project(slugify(repos[GlobalIndex].name)) = {}
                    THEN \E p \in archived_dir' :
                            /\ p.id = slugify(repos[GlobalIndex].name)
                            /\ p.name = repos[GlobalIndex].name
                            /\ p.status = "archived"
                    ELSE UNCHANGED store
              \/ /\ C19_Asked("y")
                 /\ C19_CountedActive
                 /\ load_project(slugify(repos[GlobalIndex].name)) = {} =>
                       \E p \in projects_dir' \ projects_dir :
                          /\ p.id = slugify(repos[GlobalIndex].name)
                          /\ p.status = "in-progress"
                          /\ p.project_type = "regular"
        /\ C19_OnlyByOverride
      ]_vars

C19_Witness ==
    /\ pc = "save"
    /\ ~args.ai_mode
    /\ last_input = "a"
    /\ LastOf(TheState.repos_processed).action = "a"
    /\ \E k \in 1..Len(out) : out[k].type = "gate_prompt" /\ out[k].action = "y"
                                /\ out[k].index = LastOf(prompted)
    /\ Cardinality(active_regular) > max_active_projects

\* C20: below the ceiling, a key on the human channel does what the same
\* token does on the machine channel: the same record, the same counter, the
\* same current_position, the same checkpoint on quit.
C20_Original ==
    [][(pc = "present" /\ pc' # "present" /\ exit' # "KILLED" /\ ~args.ai_mode
          /\ Cardinality(active_regular) < max_active_projects) =>
          LET repo == repos[GlobalIndex]
              d == ai_decision(last_input', Cardinality(active_regular),
                               max_active_projects)
              c == create_project_from_repo(repo, d.status)
          IN IF d.quit
             THEN /\ exit' = "PAUSED"
                  /\ import_state_file' = save_import_state(TheState)
                  /\ UNCHANGED store
             ELSE /\ pc' = "save"
                  /\ state' = {track(TheState, d, repo.name, GlobalIndex)}
                  /\ IF d.status = "" THEN UNCHANGED store
                     ELSE /\ projects_dir' = c.pd
                          /\ completed_dir' = c.cd
                          /\ archived_dir' = c.ad
      ]_vars
\* the step of a jnl new --yes
C21_NewYesStep ==
    /\ cmd' # cmd
    /\ \E r \in cmd' : r.command = "new" /\ r.options.yes

C22_UpdateStep ==
    /\ cmd' # cmd
    /\ \E r \in cmd' : r.command = "update"

\* the options name no field, or only a tag that is already there / not there
C22_NoFieldChange(o, found) ==
    /\ o.completion < 0
    /\ o.priority = ""
    /\ ~o.next_steps
    /\ o.status = ""
    /\ o.add_tag # "" => \A p \in found : HasTag(p.tags, o.add_tag)
    /\ o.remove_tag # "" => \A p \in found : ~HasTag(p.tags, o.remove_tag)

\* C22: jnl update on an existing project with no field option (no change
\* results) reports an error with success false and leaves the whole store,
\* the record's last_active included, as it was; on a missing project it
\* reports an error and changes nothing.
C22_UpdateNoChange ==
    [][C22_UpdateStep =>
          LET r == CHOOSE r \in cmd' : TRUE
              found == load_project(r.options.project_id)
          IN /\ (found # {} /\ C22_NoFieldChange(r.options, found)) =>
                    /\ ~r.success
                    /\ r.messages = <<"error: No fields specified to update">>
                    /\ UNCHANGED store
             /\ found = {} =>
                    /\ ~r.success
                    /\ r.messages = <<"error: not found">>
                    /\ UNCHANGED store
      ]_vars

\* an update without options on a project last touched a month ago
C22_Witness ==
    /\ \E r \in cmd : /\ r.command = "update" /\ ~r.success
                      /\ r.options.project_id = <<"a">>
                      /\ r.options.add_tag = "" /\ r.options.remove_tag = ""
                      /\ r.messages = <<"error: No fields specified to update">>
    /\ \E p \in projects_dir : p.id = <<"a">> /\ p.last_active = 30
\* the step of a jnl batch --dry-run
C23_DryRunStep ==
    /\ cmd' # cmd
    /\ \E r \in cmd' : r.command = "batch" /\ r.options.dry_run

C24_Words(ai_mode) ==
    IF ai_mode
    THEN {"active", "a", "ongoing", "o", "maintenance", "m", "skip", "s", "quit", "q"}
    ELSE {"a", "o", "s", "q"}

C24_InputStep == pc = "present" /\ pc' \in {"save", "idle"}

C24_QuitEnds ==
    strip_lower(last_input'.lines[1]) \in {"quit", "q"}
        => pc' = "idle" /\ exit' = "PAUSED"

C24_DefaultArchives ==
    LET entered == strip_lower(last_input'.lines[1])
        repo == Remaining(repos, start_pos)[(batch_num - 1) * BATCH_SIZE + i + 1]
        before == TheState
        after == CHOOSE st \in state' : TRUE
    IN
    (entered # EOF /\ entered \notin C24_Words(args.ai_mode)) =>
        /\ pc' = "save"
        /\ \E p \in archived_dir' : p.id = slugify(repo.name) /\ p.status = "archived"
        /\ after.processed.imported_as_archived
              = before.processed.imported_as_archived + 1
        /\ after.current_position = GlobalIndex

C24_Original == [][C24_InputStep => C24_QuitEnds /\ C24_DefaultArchives]_vars

\* C25 -- within a run, once startup has chosen the state, current_position
\* never decreases: the checkpoint is never ahead of the state in memory,
\* every step leaves the position in memory at or above what it was, every
\* checkpoint a step writes is at or above the position in memory and the
\* checkpoint before it, and a resumed run starts at the position of the
\* checkpoint it loaded and at nothing else.
PositionOf(S) == (CHOOSE st \in S : TRUE).current_position

C25_InRun == pc \in {"fetch", "present", "save", "batch_end", "finish"}

C25_Monotone ==
    /\ (state # {} /\ import_state_file # {})
          => PositionOf(import_state_file) <= PositionOf(state)
    /\ (state # {} /\ state' # {}) => PositionOf(state') >= PositionOf(state)
    /\ (import_state_file # {} /\ import_state_file' # {})
          => PositionOf(import_state_file') >= PositionOf(import_state_file)
    /\ (state # {} /\ import_state_file' # {} /\ import_state_file' # import_state_file)
          => PositionOf(import_state_file') >= PositionOf(state)

C25_ResumeStart ==
    (pc = "fetch" /\ ~fresh /\ pc' \in {"present", "finish"}) =>
        /\ start_pos' = PositionOf(import_state_file)
        /\ pc' = "present" =>
              start_pos' + (batch_num' - 1) * BATCH_SIZE + i' + 1
                  = PositionOf(import_state_file) + 1

C25_PositionMonotone == [][C25_InRun => C25_Monotone /\ C25_ResumeStart]_vars

\* a resumed run has decided the item after the checkpoint it loaded
C25_Witness ==
    /\ pc = "save"
    /\ ~fresh
    /\ start_pos >= 1
    /\ PositionOf(state) = start_pos + 1
    /\ PositionOf(import_state_file) = start_pos

\* C26 -- a run presents the items of kept[current_position:] one at a time
\* in source order, each once, under the consecutive 1-based indices
\* current_position + 1, current_position + 2, ...; a run that nobody quits
\* ends with index len(kept); a batch ends after exactly BATCH_SIZE items,
\* or with the last item of the list, and the next batch goes on with the
\* next item.
C26_Results == SelectSeq(out, LAMBDA r : r.type = "result")

\* the number of items decided when batch b of a run over n items has ended
C26_DoneAfter(b, n) == IF b * BATCH_SIZE < n THEN b * BATCH_SIZE ELSE n

C26_InOrder ==
    LET log == TheState.repos_processed
        before == Len(log) - Len(prompted)
    IN
    /\ Len(C26_Results) = Len(prompted)
    /\ \A k \in 1..Len(prompted) :
          /\ prompted[k] = start_pos + k
          /\ prompted[k] <= Len(repos)
          /\ C26_Results[k].index = start_pos + k
          /\ log[before + k].name = repos[start_pos + k].name

C26_Batches ==
    LET n == Len(repos) - start_pos
        decided == Len(prompted)
    IN
    /\ pc = "present" => decided = (batch_num - 1) * BATCH_SIZE + i /\ i < BATCH_SIZE
    /\ pc = "batch_end" => decided = C26_DoneAfter(batch_num, n)
    /\ \A k \in 1..Len(out) :
          out[k].type \in {"batch_summary", "batch_complete"} =>
              Len(SelectSeq(SubSeq(out, 1, k), LAMBDA r : r.type = "result"))
                  = C26_DoneAfter(out[k].index, n)
    /\ pc = "finish" => start_pos + decided = Len(repos) \/ (decided = 0 /\ n <= 0)

C26_PresentedInOrder ==
    pc \in {"present", "save", "batch_end", "finish"} => C26_InOrder /\ C26_Batches

\* a resumed run has gone through a full batch and a shorter last one
C26_Witness ==
    /\ pc = "finish"
    /\ start_pos = 1
    /\ Len(prompted) = Len(E2ERepos) - 1
    /\ batch_num = 2

\* C27 -- every ImportState of an import that began from a fresh state, the
\* one in memory and the one in the checkpoint, through every quit and
\* resume over the same candidate list: current_position is the length of
\* the decision log and the sum of the five outcome counters.
C27_Sum(c) ==
    c.imported_as_active + c.imported_as_ongoing + c.imported_as_maintenance
        + c.imported_as_archived + c.skipped

C27_Consistent(st) ==
    /\ st.current_position = Len(st.repos_processed)
    /\ st.current_position = C27_Sum(st.processed)

C27_PositionIsLogIsSum ==
    \A st \in state \cup import_state_file \cup killed : C27_Consistent(st)

\* a resumed run has written the checkpoint after a skipped and an archived item
C27_Witness ==
    /\ pc = "batch_end"
    /\ ~fresh
    /\ import_state_file # {}
    /\ DiskState.current_position = 2
    /\ DiskState.processed.skipped = 1
    /\ DiskState.processed.imported_as_archived = 1

\* C28 -- each imported_as_* counter grows by the number of records of its
\* kind that the handler has created: when the materializer skips because the
\* identifier exists already, no counter of an import grows.
C28_Kinds ==
    {"imported_as_active", "imported_as_ongoing", "imported_as_maintenance",
     "imported_as_archived"}

C28_IsKind(p, kind) ==
    CASE kind = "imported_as_archived" -> p.status = "archived"
      [] kind = "imported_as_ongoing" ->
            p.status = "in-progress" /\ p.project_type = "ongoing"
      [] kind = "imported_as_maintenance" ->
            p.status = "in-progress" /\ p.project_type = "maintenance"
      [] OTHER -> p.status = "in-progress" /\ p.project_type = "regular"

C28_Created(kind) ==
    {p \in AllRecords(projects_dir, completed_dir, archived_dir)' : C28_IsKind(p, kind)}
        \ AllRecords(projects_dir, completed_dir, archived_dir)

C28_Original ==
    [][(pc = "present" /\ pc' = "save") =>
          \A kind \in C28_Kinds :
              (CHOOSE st \in state' : TRUE).processed[kind] - TheState.processed[kind]
                  = Cardinality(C28_Created(kind))
      ]_vars

\* C29 -- when a run ends by a quit, at an item or at a batch boundary, the
\* progress it reports (the machine status record, the human quit summary)
\* is that of the checkpoint it has just written: processed is the
\* checkpoint's current_position and remaining is len(kept) less that.
C29_QuitStep == pc \in {"present", "batch_end"} /\ pc' = "idle" /\ exit' = "PAUSED"

C29_Reports ==
    {k \in Len(out) + 1..Len(out') : out'[k].type \in {"status", "quit_summary"}}

C29_Original ==
    [][C29_QuitStep =>
          \A k \in C29_Reports :
              /\ out'[k].n1 = PositionOf(import_state_file')
              /\ out'[k].n2 = Len(repos) - PositionOf(import_state_file')
      ]_vars

\* C30 -- a machine-mode run that is never told to quit and never runs out
\* of input, whatever the filtered list and the checkpoint it starts with:
\* it gets to the end of the list after exactly len(kept) - current_position
\* prompts, it ends COMPLETED with the checkpoint cleared, and it never ends
\* PAUSED.
C30_Original ==
    /\ \A k \in 1..MaxRuns :
          (runs = k) ~> (/\ runs = k
                         /\ pc = "idle"
                         /\ exit = "COMPLETED"
                         /\ import_state_file = {})
    /\ \A k \in 1..MaxRuns :
          (runs = k /\ pc = "fetch") ~> (/\ runs = k
                                          /\ pc = "finish"
                                          /\ Len(prompted) = Len(repos) - start_pos)
    /\ [](exit # "PAUSED")
====
